---- MODULE Spec2Model ----
(***************************************************************************)
(* Model of sciencebeam/transformers/grobid_to_latex.py: the TEI-to-LaTeX  *)
(* conversion (locate figures, convert narrative, crop, render, package)   *)
(* run inside one temporary working directory.                             *)
(*                                                                         *)
(* Numbers: every coordinate is held in tenths of a unit (Scale), so the   *)
(* decimal strings of the inputs, which carry at most one fractional       *)
(* digit, are represented exactly.  Page numbers are plain integers.       *)
(* Strings that the code parses are sequences of one-character strings.    *)
(***************************************************************************)
EXTENDS Integers, Sequences, FiniteSets, TLC

VARIABLES
    teixml,      \* input: the element nodes of the TEI document, in document order
    pdf,         \* input: the source document, one media box per page
    pc,          \* position inside teixslt_transformer_from_file_tolatex.__call__
    workingDir,  \* name of the TemporaryDirectory of this call ("" before it is made)
    dirExists,   \* whether that directory exists on disk
    files,       \* names <<stem, ext>> of the files in the working directory
    pages,       \* the reader's page objects: per page index its boxes (shared, mutable)
    figures,     \* result of extractFigures
    pdfFiles,    \* mapping built by croppdf: label -> path
    svgFiles,    \* mapping built by tosvg: label -> path
    written,     \* what croppdf wrote into each <label>.pdf during this call
    i,           \* loop position inside croppdf
    archive,     \* member names of article.zip ({} while the file does not exist)
    failed,      \* the external tool invocations that failed during this call
    result,      \* what the call returned: <<>> nothing yet, <<members>> the bytes read
    raisedAt,    \* "" or the stage whose exception left the call
    run,         \* number of the conversion in progress (1-based)
    prev,        \* what earlier conversions of the same inputs returned
    workers,     \* parallel cropping: per part its position and the page index it holds
    step,        \* pipeline: position of the runner in the steps of get_steps
    pdf_content, \* pipeline: the bytes given to 'Convert to TEI' in this conversion
    passes,      \* pipeline: whether the runner passes context= in this conversion
    context,     \* pipeline: the "pdfdata" entry of the dict the runner passes
    teiContext,  \* pipeline: the "pdfdata" entry of the default dict of the first lambda
    latexContext, \* pipeline: the "pdfdata" entry of the default dict of the second lambda
    handed,      \* pipeline: the bytes 'TEI to LATEX' gave latex_transformer as pdf
    conversions  \* pipeline: number of conversions begun

\* the state of the pipeline steps
pipeVars == <<step, pdf_content, passes, context, teiContext, latexContext, handed,
              conversions>>

\* no conversion has gone through the steps: both default dicts are as created
PipeIdle ==
    /\ step = "idle"
    /\ pdf_content = ""
    /\ passes = FALSE
    /\ context = <<>>
    /\ teiContext = <<>>
    /\ latexContext = <<>>
    /\ handed = <<>>
    /\ conversions = 0

vars == <<teixml, pdf, pc, workingDir, dirExists, files, pages, figures, pdfFiles,
          svgFiles, written, i, archive, failed, result, raisedAt, run, prev, workers, pipeVars>>

----------------------------------------------------------------------------
(* Bounds of the model *)

\* most nodes in one TEI document
MaxNodes == 2
\* most conversions of the same inputs in a row
MaxRuns == 2
\* deepest nesting of a node below the root element
MaxDepth == 2
\* largest page extent and largest coordinate of the geometry runs, in tenths
MaxExtent == 3
\* longest coordinate string of the parsing runs
MaxLen == 5
\* number of conversions run through one list of steps
MaxConversions == 3

\* fixed-point scale of the coordinates: 1 unit = Scale tenths
Scale == 10

----------------------------------------------------------------------------
(* Strings *)

Digits == {"0", "1", "2", "3", "4", "5", "6", "7", "8", "9"}

DigitVal(c) ==
    CASE c = "0" -> 0 [] c = "1" -> 1 [] c = "2" -> 2 [] c = "3" -> 3 [] c = "4" -> 4
      [] c = "5" -> 5 [] c = "6" -> 6 [] c = "7" -> 7 [] c = "8" -> 8 [] c = "9" -> 9

\* index of the first occurrence of sep in s, 0 when there is none
RECURSIVE FindFrom(_, _, _)
FindFrom(s, sep, k) ==
    IF k > Len(s) THEN 0
    ELSE IF s[k] = sep THEN k
    ELSE FindFrom(s, sep, k + 1)

\* str.split(sep): the fields between the separators, at least one field
RECURSIVE Split(_, _)
Split(s, sep) ==
    LET k == FindFrom(s, sep, 1)
    IN  IF k = 0 THEN <<s>>
        ELSE <<SubSeq(s, 1, k - 1)>> \o Split(SubSeq(s, k + 1, Len(s)), sep)

\* value of a run of digits
RECURSIVE DigitsVal(_)
DigitsVal(s) ==
    IF s = <<>> THEN 0
    ELSE DigitsVal(SubSeq(s, 1, Len(s) - 1)) * 10 + DigitVal(s[Len(s)])

AllDigits(s) == \A k \in 1..Len(s) : s[k] \in Digits

\* float(x): accepts [-]digits[.digit] with at least one digit; the value in tenths.
\* ok = FALSE stands for the ValueError float() raises.
ParseFloat(x) ==
    LET neg  == Len(x) > 0 /\ x[1] = "-"
        body == IF neg THEN SubSeq(x, 2, Len(x)) ELSE x
        dot  == FindFrom(body, ".", 1)
        ip   == IF dot = 0 THEN body ELSE SubSeq(body, 1, dot - 1)
        fp   == IF dot = 0 THEN <<>> ELSE SubSeq(body, dot + 1, Len(body))
        good == /\ AllDigits(ip) /\ AllDigits(fp)
                /\ Len(ip) + Len(fp) > 0
                /\ Len(fp) <= 1
        mag  == DigitsVal(ip) * Scale + DigitsVal(fp)
    IN  IF good THEN [ok |-> TRUE, val |-> IF neg THEN 0 - mag ELSE mag]
        ELSE [ok |-> FALSE, val |-> 0]

\* int(f) of a float held in tenths: truncation toward zero
IntOf(v) == IF v >= 0 THEN v \div Scale ELSE 0 - ((0 - v) \div Scale)

----------------------------------------------------------------------------
(* Inputs *)

S(a, b, c, d, e) == a \o <<",">> \o b \o <<",">> \o c \o <<",">> \o d \o <<",">> \o e

\* "1,1,2,3,4": page 1
CoordsPage1 == S(<<"1">>, <<"1">>, <<"2">>, <<"3">>, <<"4">>)
\* "1,2.5,1,4,2;2,0,0,1,1": page 1, a decimal field and a second region
CoordsPage1Multi ==
    S(<<"1">>, <<"2", ".", "5">>, <<"1">>, <<"4">>, <<"2">>)
        \o <<";">> \o S(<<"2">>, <<"0">>, <<"0">>, <<"1">>, <<"1">>)
\* "2,0,3,5,1": page 2
CoordsPage2 == S(<<"2">>, <<"0">>, <<"3">>, <<"5">>, <<"1">>)
\* "0,1,1,2,2": page 0
CoordsPage0 == S(<<"0">>, <<"1">>, <<"1">>, <<"2">>, <<"2">>)
\* "3,1,1,2,2": page 3, beyond every document of the model
CoordsPage3 == S(<<"3">>, <<"1">>, <<"1">>, <<"2">>, <<"2">>)
\* "1,x,2,3,4": not a number
CoordsBad == S(<<"1">>, <<"x">>, <<"2">>, <<"3">>, <<"4">>)

None == "None"

\* one node of the document: its tag and the result lists of the two attribute
\* queries ("./@xml:id", "./@coords"), each empty or of one value
Node(tag, id, coords) == [tag |-> tag, id |-> id, coords |-> coords]

Nodes ==
    { Node("figure", <<"fig_0">>, <<CoordsPage1>>),
      Node("figure", <<"fig_0">>, <<CoordsPage0>>),
      Node("figure", <<"fig_0">>, <<CoordsBad>>),
      Node("figure", <<"fig_0">>, <<>>),
      Node("figure", <<"fig_1">>, <<CoordsPage1Multi>>),
      Node("figure", <<"fig_1">>, <<CoordsPage2>>),
      Node("figure", <<"fig_1">>, <<CoordsPage3>>),
      Node("figure", <<"fig_2">>, <<CoordsPage2>>),
      Node("figure", <<>>, <<CoordsPage2>>),
      Node("div", <<"sec_1">>, <<CoordsPage2>>) }

RECURSIVE SeqsUpTo(_, _)
SeqsUpTo(set, n) ==
    IF n = 0 THEN {<<>>}
    ELSE LET shorter == SeqsUpTo(set, n - 1)
         IN  shorter \cup {Append(s, e) : s \in shorter, e \in set}

\* xml:id values are unique within a document: no two nodes carry the same one
UniqueIds(doc) ==
    \A j, k \in 1..Len(doc) :
        (j # k /\ Len(doc[j].id) = 1 /\ Len(doc[k].id) = 1) => doc[j].id # doc[k].id

\* a node placed at a nesting depth below the root element
At(node, depth) ==
    [tag |-> node.tag, id |-> node.id, coords |-> node.coords, depth |-> depth]

\* the depths of a document read in document order: the first node is a child of
\* the root, every later node is at most one level below the node before it
WellNested(doc) ==
    /\ Len(doc) > 0 => doc[1].depth = 1
    /\ \A k \in 2..Len(doc) : doc[k].depth <= doc[k - 1].depth + 1

TeiDocuments ==
    {doc \in SeqsUpTo({At(n, d) : n \in Nodes, d \in 1..MaxDepth}, MaxNodes) :
        UniqueIds(doc) /\ WellNested(doc)}

\* a media box [llx, lly, urx, ury] in tenths
MediaBoxA == <<0, 0, 100, 200>>
MediaBoxB == <<0, 0, 300, 150>>

\* the source documents: one page, two pages of different extent
PdfDocuments == { <<MediaBoxA>>, <<MediaBoxA, MediaBoxB>> }

\* names tempfile.mkdtemp can give the working directory
DirNames == {"tmpA", "tmpB"}

----------------------------------------------------------------------------
(* grobid_to_latex.py: the pure functions *)

\* getAttr: the single value of the attribute query, None otherwise
getAttr(xelement, attr) ==
    LET found == IF attr = "coords" THEN xelement.coords ELSE xelement.id
    IN  IF Len(found) = 1 THEN found[1] ELSE None

HasAttr(xelement, attr) ==
    Len(IF attr = "coords" THEN xelement.coords ELSE xelement.id) = 1

\* parseCoords: the part before the first ';', split on ',', every field through
\* float(), the first then through int().  ok = FALSE is the ValueError of float().
\* a parse of the last ';'-segment instead of the first
parseCoordsLastSegment(coordsString) ==
    LET segs   == Split(coordsString, ";")
        fields == Split(segs[Len(segs)], ",")
        parsed == [k \in 1..Len(fields) |-> ParseFloat(fields[k])]
        allOk  == \A k \in 1..Len(fields) : parsed[k].ok
        res    == [k \in 1..Len(fields) |->
                      IF k = 1 THEN IntOf(parsed[k].val) ELSE parsed[k].val]
    IN  [ok |-> allOk, val |-> IF allOk THEN res ELSE <<>>]

parseCoords(coordsString) ==
    LET fields == Split(Split(coordsString, ";")[1], ",")
        parsed == [k \in 1..Len(fields) |-> ParseFloat(fields[k])]
        allOk  == \A k \in 1..Len(fields) : parsed[k].ok
        res    == [k \in 1..Len(fields) |->
                      IF k = 1 THEN IntOf(parsed[k].val) ELSE parsed[k].val]
    IN  [ok |-> allOk, val |-> IF allOk THEN res ELSE <<>>]

\* a selection of the figure children of the root only, as /*/figure would give
RECURSIVE FigureNodesTopLevel(_)
FigureNodesTopLevel(xml) ==
    IF xml = <<>> THEN <<>>
    ELSE (IF Head(xml).tag = "figure" /\ Head(xml).depth = 1 THEN <<Head(xml)>> ELSE <<>>)
             \o FigureNodesTopLevel(Tail(xml))

\* the nodes selected by //*[local-name()='figure'], in document order
RECURSIVE FigureNodes(_)
FigureNodes(xml) ==
    IF xml = <<>> THEN <<>>
    ELSE (IF Head(xml).tag = "figure" THEN <<Head(xml)>> ELSE <<>>)
             \o FigureNodes(Tail(xml))

\* a loop that takes a figure without xml:id or coords for an error
RECURSIVE ExtractLoopStrict(_)
ExtractLoopStrict(nodes) ==
    IF nodes = <<>> THEN [ok |-> TRUE, val |-> <<>>]
    ELSE LET figurenode == Head(nodes)
             rest       == ExtractLoopStrict(Tail(nodes))
         IN  IF HasAttr(figurenode, "xml:id") /\ HasAttr(figurenode, "coords")
             THEN LET c == parseCoords(getAttr(figurenode, "coords"))
                  IN  IF c.ok /\ rest.ok
                      THEN [ok |-> TRUE,
                            val |-> <<<<getAttr(figurenode, "xml:id"), c.val>>>> \o rest.val]
                      ELSE [ok |-> FALSE, val |-> <<>>]
             ELSE [ok |-> FALSE, val |-> <<>>]

\* the loop of extractFigures over the selected nodes
RECURSIVE ExtractLoop(_)
ExtractLoop(nodes) ==
    IF nodes = <<>> THEN [ok |-> TRUE, val |-> <<>>]
    ELSE LET figurenode == Head(nodes)
             rest       == ExtractLoop(Tail(nodes))
         IN  IF HasAttr(figurenode, "xml:id") /\ HasAttr(figurenode, "coords")
             THEN LET c == parseCoords(getAttr(figurenode, "coords"))
                  IN  IF c.ok /\ rest.ok
                      THEN [ok |-> TRUE,
                            val |-> <<<<getAttr(figurenode, "xml:id"), c.val>>>> \o rest.val]
                      ELSE [ok |-> FALSE, val |-> <<>>]
             ELSE rest

\* extractFigures: ok = FALSE when parseCoords raised
extractFigures(xml) == ExtractLoop(FigureNodes(xml))

\* a transform that measures y from the reference's x
transformByWidth(point, reference) == <<point[1], reference[1] - point[2]>>

\* a transform that leaves the vertical axis as it is
transformNoFlip(point, reference) == <<point[1], point[2]>>

\* transform: keep x, measure y down from the reference's y
transform(point, reference) == <<point[1], reference[2] - point[2]>>

----------------------------------------------------------------------------
(* The page objects of the reader and the boxes of a page *)

\* RectangleObject accessors: a box is [llx, lly, urx, ury]
getUpperRight_x(box) == box[3]
getUpperRight_y(box) == box[4]
getLowerLeft(box)  == <<box[1], box[2]>>
getUpperRight(box) == <<box[3], box[4]>>

\* box.lowerRight = value: stores (urx, lly)
setLowerRight(box, value) == [box EXCEPT ![3] = value[1], ![2] = value[2]]
\* box.upperLeft = value: stores (llx, ury)
setUpperLeft(box, value) == [box EXCEPT ![1] = value[1], ![4] = value[2]]

\* a page as PdfFileReader hands it out: trim and crop box default to the media box
FreshPage(mediaBox) == [mediaBox |-> mediaBox, trimBox |-> mediaBox, cropBox |-> mediaBox]

\* the page objects of a newly opened reader, indexed from 0
FreshPages(doc) == [n \in 0..(Len(doc) - 1) |-> FreshPage(doc[n + 1])]

\* inputpdf.getPage(k): list indexing, -1 when it raises IndexError.
\* A negative k counts from the end of the page list.
getPage(numPages, k) ==
    IF k >= 0 /\ k < numPages THEN k
    ELSE IF k < 0 /\ k >= 0 - numPages THEN numPages + k
    ELSE 0 - 1

\* a croppdf that sets the crop box and leaves the trim box as it was
SetBoxesCropOnly(page, coords) ==
    LET upperRightMax == <<getUpperRight_x(page.mediaBox), getUpperRight_y(page.mediaBox)>>
        lowerLeft     == transform(<<coords[2], coords[3]>>, upperRightMax)
        upperRight    == transform(<<coords[2] + coords[4], coords[3] + coords[5]>>,
                                   upperRightMax)
    IN  [page EXCEPT !.cropBox = setUpperLeft(setLowerRight(@, lowerLeft), upperRight)]

\* lines 65-72 of croppdf: the page with trim and crop box set from coords
SetBoxes(page, coords) ==
    LET upperRightMax == <<getUpperRight_x(page.mediaBox), getUpperRight_y(page.mediaBox)>>
        lowerLeft     == transform(<<coords[2], coords[3]>>, upperRightMax)
        upperRight    == transform(<<coords[2] + coords[4], coords[3] + coords[5]>>,
                                   upperRightMax)
    IN  [page EXCEPT !.trimBox = setUpperLeft(setLowerRight(@, lowerLeft), upperRight),
                     !.cropBox = setUpperLeft(setLowerRight(@, lowerLeft), upperRight)]

\* whether one pass of the croppdf loop raises IndexError: the page index or a
\* coordinate index is out of range
CropRaises(numPages, coords) ==
    \/ Len(coords) < 5
    \/ getPage(numPages, coords[1] - 1) < 0

Path(dir, stem, ext) == <<dir, stem, ext>>

\* a store that forgets the earlier entries of the mapping
PutAlone(mapping, key, value) == (key :> value)

\* mapping[key] = value on a dict
Put(mapping, key, value) == (key :> value) @@ mapping

EmptyMap == [x \in {} |-> <<>>]

----------------------------------------------------------------------------
(* The external tools, as far as the code observes them *)

\* what one invocation through os.popen(...).read() can do: run and leave its
\* output, fail (non-zero exit, no output; the code reads only stdout), or not
\* start at all, in which case os.popen raises OSError
ToolOutcomes == {"ok", "toolfail", "raise"}

ZipKinds == <<"tex", "svg", "xml">>

\* the files of the working directory a shell glob <dir>/*.<ext> expands to
Matching(fs, ext) == {f \in fs : f[2] = ext}

\* one "zip <dir>/article.zip <dir>/*.<ext>": the member names after it.  Members
\* are named by the path given on the command line.  Nothing is added when the
\* tool fails or when the glob matches no file.
ZipAdd(members, dir, fs, ext, ok) ==
    IF ok THEN members \cup {Path(dir, f[1], f[2]) : f \in Matching(fs, ext)}
    ELSE members

\* toZip: the three invocations in the order .tex, .svg, .xml
toZip(dir, fs, oks) ==
    ZipAdd(ZipAdd(ZipAdd({}, dir, fs, ZipKinds[1], oks[1]),
                  dir, fs, ZipKinds[2], oks[2]),
           dir, fs, ZipKinds[3], oks[3])

\* the invocations of toZip that failed although they had files to add
ZipFailures(fs, oks) ==
    {<<"zip", ZipKinds[k]>> : k \in {n \in 1..3 : ~oks[n] /\ Matching(fs, ZipKinds[n]) # {}}}

\* a clean-up that runs on the normal exit only
CleanupUnlessRaised(raised, fs) ==
    IF raised THEN [files |-> fs, exists |-> TRUE] ELSE [files |-> {}, exists |-> FALSE]

\* TemporaryDirectory.__exit__: the directory and everything in it is removed,
\* whether the block returned or raised
Cleanup(raised, fs) == [files |-> {}, exists |-> FALSE]

----------------------------------------------------------------------------
(* teixslt_transformer_from_file_tolatex.__call__, one step per stage *)

ArchiveFile == <<"article", "zip">>

Init ==
    /\ teixml \in TeiDocuments
    /\ pdf \in PdfDocuments
    /\ pc = "start"
    /\ workingDir = ""
    /\ dirExists = FALSE
    /\ files = {}
    /\ pages = FreshPages(<<>>)
    /\ figures = <<>>
    /\ pdfFiles = EmptyMap
    /\ svgFiles = EmptyMap
    /\ written = EmptyMap
    /\ i = 1
    /\ archive = {}
    /\ failed = {}
    /\ result = <<>>
    /\ raisedAt = ""
    /\ run = 1
    /\ prev = <<>>
    /\ workers = <<>>
    /\ PipeIdle

\* an exception leaves the with block: the directory is cleaned up, the call raises
Raise(stage) ==
    /\ pc' = "raised"
    /\ raisedAt' = stage
    /\ files' = Cleanup(TRUE, files).files
    /\ dirExists' = Cleanup(TRUE, files).exists
    /\ archive' = IF ArchiveFile \in files' THEN archive ELSE {}
    /\ UNCHANGED <<teixml, pdf, workingDir, pages, figures, pdfFiles, svgFiles, written,
                   i, failed, result, run, prev, workers, pipeVars>>

\* with TemporaryDirectory('convert-to-latex') as workingDir
Enter ==
    /\ pc = "start"
    /\ \E d \in DirNames : workingDir' = d
    /\ dirExists' = TRUE
    /\ pc' = "locate"
    /\ UNCHANGED <<teixml, pdf, files, pages, figures, pdfFiles, svgFiles, written, i,
                   archive, failed, result, raisedAt, run, prev, workers, pipeVars>>

\* figures = extractFigures(teixml)
Locate ==
    /\ pc = "locate"
    /\ LET r == extractFigures(teixml)
       IN  IF r.ok
           THEN /\ figures' = r.val
                /\ pc' = "narrative"
                /\ UNCHANGED <<teixml, pdf, workingDir, dirExists, files, pages, pdfFiles,
                               svgFiles, written, i, archive, failed, result, raisedAt,
                               run, prev, workers, pipeVars>>
           ELSE Raise("locate")

\* latexFile = convertlatex(teixml, workingDir)
ConvertLatex ==
    /\ pc = "narrative"
    /\ \E outcome \in ToolOutcomes :
         IF outcome = "raise" THEN Raise("narrative")
         ELSE /\ files' = files \cup {<<"teidoc", "xml">>}
                             \cup (IF outcome = "ok" THEN {<<"teidoc", "tex">>} ELSE {})
              /\ failed' = failed \cup
                             (IF outcome = "ok" THEN {} ELSE {<<"narrative", "teidoc">>})
              /\ pc' = "crop"
              /\ UNCHANGED <<teixml, pdf, workingDir, dirExists, pages, figures, pdfFiles,
                             svgFiles, written, i, archive, result, raisedAt, run, prev, workers, pipeVars>>

\* croppdf, lines 49-59: the reader is opened on the bytes, the result is empty
CropOpen ==
    /\ pc = "crop"
    /\ pages' = FreshPages(pdf)
    /\ pdfFiles' = EmptyMap
    /\ i' = 1
    /\ pc' = IF figures = <<>> THEN "zip" ELSE "cropLoop"
    /\ UNCHANGED <<teixml, pdf, workingDir, dirExists, files, figures, svgFiles, written,
                   archive, failed, result, raisedAt, run, prev, workers, pipeVars>>

\* croppdf, lines 60-76: one pass of the loop over parts
CropPart ==
    /\ pc = "cropLoop"
    /\ LET part   == figures[i]
           name   == part[1]
           coords == part[2]
       IN  IF CropRaises(Len(pdf), coords) THEN Raise("crop")
           ELSE LET n    == getPage(Len(pdf), coords[1] - 1)
                    page == SetBoxes(pages[n], coords)
                IN  /\ pages' = [pages EXCEPT ![n] = page]
                    /\ pdfFiles' = Put(pdfFiles, name, Path(workingDir, name, "pdf"))
                    /\ written' = Put(written, name, [page |-> n, trimBox |-> page.trimBox,
                                                     cropBox |-> page.cropBox])
                    /\ files' = files \cup {<<name, "pdf">>}
                    /\ i' = i + 1
                    /\ pc' = IF i = Len(figures) THEN "render" ELSE "cropLoop"
                    /\ UNCHANGED <<teixml, pdf, workingDir, dirExists, figures, svgFiles,
                                   archive, failed, result, raisedAt, run, prev, workers, pipeVars>>

\* a loop over pdfFiles that ends after its first pass
AfterRenderFirst(svg, pdfs) == "zip"

\* tosvg: the for loop goes on while a key of pdfFiles is left, then tosvg returns
AfterRender(svg, pdfs) == IF DOMAIN svg = DOMAIN pdfs THEN "zip" ELSE "render"

\* tosvg: one pass of the loop over the keys of pdfFiles
RenderPart ==
    /\ pc = "render"
    /\ \E pdfFile \in DOMAIN pdfFiles \ DOMAIN svgFiles, outcome \in ToolOutcomes :
         IF outcome = "raise" THEN Raise("render")
         ELSE LET sourceFile == pdfFiles[pdfFile]
                  targetFile == Path(sourceFile[1], sourceFile[2], "svg")
              IN  /\ svgFiles' = Put(svgFiles, pdfFile, targetFile)
                  /\ files' = files \cup
                                (IF outcome = "ok" THEN {<<targetFile[2], "svg">>} ELSE {})
                  /\ failed' = failed \cup
                                (IF outcome = "ok" THEN {} ELSE {<<"render", pdfFile>>})
                  /\ pc' = AfterRender(svgFiles', pdfFiles)
                  /\ UNCHANGED <<teixml, pdf, workingDir, dirExists, pages, figures,
                                 pdfFiles, written, i, archive, result, raisedAt, run, prev, workers, pipeVars>>

\* toZip(workingDir)
Package ==
    /\ pc = "zip"
    /\ \E raises \in BOOLEAN, oks \in [1..3 -> BOOLEAN] :
         IF raises THEN Raise("package")
         ELSE /\ archive' = toZip(workingDir, files, oks)
              /\ files' = files \cup (IF archive' # {} THEN {ArchiveFile} ELSE {})
              /\ failed' = failed \cup ZipFailures(files, oks)
              /\ pc' = "read"
              /\ UNCHANGED <<teixml, pdf, workingDir, dirExists, pages, figures, pdfFiles,
                             svgFiles, written, i, result, raisedAt, run, prev, workers, pipeVars>>

\* with open("%s/article.zip" % workingDir, "rb") as f: return f.read()
ReadArchive ==
    /\ pc = "read"
    /\ IF ArchiveFile \in files
       THEN /\ result' = <<archive>>
            /\ pc' = "returned"
            /\ files' = Cleanup(FALSE, files).files
            /\ dirExists' = Cleanup(FALSE, files).exists
            /\ archive' = IF ArchiveFile \in files' THEN archive ELSE {}
            /\ UNCHANGED <<teixml, pdf, workingDir, pages, figures, pdfFiles, svgFiles,
                           written, i, failed, raisedAt, run, prev, workers, pipeVars>>
       ELSE Raise("read")

Next ==
    \/ Enter
    \/ Locate
    \/ ConvertLatex
    \/ CropOpen
    \/ CropPart
    \/ RenderPart
    \/ Package
    \/ ReadArchive

Spec == Init /\ [][Next]_vars

----------------------------------------------------------------------------
(* The caller converting the same TEI and PDF bytes again *)

\* the transformer is called once more with the inputs of the call that ended;
\* what that call returned and cropped is kept for comparison
Again ==
    /\ pc \in {"returned", "raised"}
    /\ run < MaxRuns
    /\ prev' = Append(prev, [returned |-> pc = "returned",
                             members  |-> IF pc = "returned" THEN result[1] ELSE {},
                             crops    |-> written,
                             failed   |-> failed])
    /\ run' = run + 1
    /\ pc' = "start"
    /\ workingDir' = ""
    /\ pages' = FreshPages(<<>>)
    /\ figures' = <<>>
    /\ pdfFiles' = EmptyMap
    /\ svgFiles' = EmptyMap
    /\ written' = EmptyMap
    /\ i' = 1
    /\ archive' = {}
    /\ failed' = {}
    /\ result' = <<>>
    /\ raisedAt' = ""
    /\ UNCHANGED <<teixml, pdf, dirExists, files, workers, pipeVars>>

NextTwice == Next \/ Again

SpecTwice == Init /\ [][NextTwice]_vars

----------------------------------------------------------------------------
(* The loop body of croppdf run by one worker per part, over one reader *)

\* the parts are the figures located in a document; the reader is open and every
\* worker is about to read its page
InitPar ==
    /\ teixml \in {doc \in TeiDocuments : extractFigures(doc).ok}
    /\ pdf \in PdfDocuments
    /\ figures = extractFigures(teixml).val
    /\ pages = FreshPages(pdf)
    /\ workers = [k \in 1..Len(figures) |-> [pc |-> "read", page |-> 0 - 1]]
    /\ pc = "parallel"
    /\ workingDir \in DirNames
    /\ dirExists = TRUE
    /\ files = {}
    /\ pdfFiles = EmptyMap
    /\ svgFiles = EmptyMap
    /\ written = EmptyMap
    /\ i = 1
    /\ archive = {}
    /\ failed = {}
    /\ result = <<>>
    /\ raisedAt = ""
    /\ run = 1
    /\ prev = <<>>
    /\ PipeIdle

\* lines 61-63: page = inputpdf.getPage(coords[0]-1); IndexError ends the worker
ParRead(k) ==
    /\ workers[k].pc = "read"
    /\ LET coords == figures[k][2]
       IN  workers' = [workers EXCEPT ![k] =
                          IF CropRaises(Len(pdf), coords)
                          THEN [pc |-> "raised", page |-> 0 - 1]
                          ELSE [pc |-> "set", page |-> getPage(Len(pdf), coords[1] - 1)]]
    /\ UNCHANGED <<teixml, pdf, pc, workingDir, dirExists, files, pages, figures, pdfFiles,
                   svgFiles, written, i, archive, failed, result, raisedAt, run, prev,
                   pipeVars>>

\* lines 65-72: trim and crop box of the page object are set
ParSet(k) ==
    /\ workers[k].pc = "set"
    /\ LET n == workers[k].page
       IN  pages' = [pages EXCEPT ![n] = SetBoxes(@, figures[k][2])]
    /\ workers' = [workers EXCEPT ![k].pc = "write"]
    /\ UNCHANGED <<teixml, pdf, pc, workingDir, dirExists, files, figures, pdfFiles,
                   svgFiles, written, i, archive, failed, result, raisedAt, run, prev,
                   pipeVars>>

\* lines 73-76: the page object, as it is now, is written to <label>.pdf
ParWrite(k) ==
    /\ workers[k].pc = "write"
    /\ LET n    == workers[k].page
           name == figures[k][1]
       IN  /\ written' = Put(written, name, [page |-> n, trimBox |-> pages[n].trimBox,
                                             cropBox |-> pages[n].cropBox])
           /\ pdfFiles' = Put(pdfFiles, name, Path(workingDir, name, "pdf"))
           /\ files' = files \cup {<<name, "pdf">>}
    /\ workers' = [workers EXCEPT ![k].pc = "done"]
    /\ UNCHANGED <<teixml, pdf, pc, workingDir, dirExists, pages, figures, svgFiles, i,
                   archive, failed, result, raisedAt, run, prev,
                   pipeVars>>

NextPar ==
    \/ \E k \in DOMAIN workers : ParRead(k)
    \/ \E k \in DOMAIN workers : ParSet(k)
    \/ \E k \in DOMAIN workers : ParWrite(k)

SpecPar == InitPar /\ [][NextPar]_vars

----------------------------------------------------------------------------
(* One pass of the croppdf loop over any page extent and any figure rectangle *)

\* croppdf is about to crop one record from a one-page document: the page extent
\* (W, H) and the origin and size of the record range over small integers
InitGeom ==
    /\ \E W \in 1..MaxExtent, H \in 1..MaxExtent : pdf = <<<<0, 0, W, H>>>>
    /\ \E x \in 0..MaxExtent, y \in 0..MaxExtent, w \in 0..MaxExtent, h \in 0..MaxExtent :
          figures = <<<<"fig_0", <<1, x, y, w, h>>>>>>
    /\ teixml = <<>>
    /\ pages = FreshPages(pdf)
    /\ pc = "cropLoop"
    /\ workingDir \in DirNames
    /\ dirExists = TRUE
    /\ files = {<<"teidoc", "xml">>}
    /\ pdfFiles = EmptyMap
    /\ svgFiles = EmptyMap
    /\ written = EmptyMap
    /\ i = 1
    /\ archive = {}
    /\ failed = {}
    /\ result = <<>>
    /\ raisedAt = ""
    /\ run = 1
    /\ prev = <<>>
    /\ workers = <<>>
    /\ PipeIdle

NextGeom == CropPart

SpecGeom == InitGeom /\ [][NextGeom]_vars

----------------------------------------------------------------------------
(* extractFigures on one figure element with any coordinate string *)

CoordChars == {"1", "2", ".", "-", ",", ";"}

\* the strings whose numbers the tenths hold exactly: no second digit after a point
Exact(str) ==
    \A k \in 1..Len(str) :
        (str[k] = "." /\ k + 2 <= Len(str)) =>
            ~(str[k + 1] \in Digits /\ str[k + 2] \in Digits)

CoordStrings == {str \in SeqsUpTo(CoordChars, MaxLen) : Exact(str)}

\* __call__ is about to call extractFigures on a document of one figure element
InitParse ==
    /\ \E str \in CoordStrings : teixml = <<At(Node("figure", <<"fig_0">>, <<str>>), 1)>>
    /\ pdf = <<MediaBoxA>>
    /\ pc = "locate"
    /\ workingDir \in DirNames
    /\ dirExists = TRUE
    /\ files = {}
    /\ pages = FreshPages(<<>>)
    /\ figures = <<>>
    /\ pdfFiles = EmptyMap
    /\ svgFiles = EmptyMap
    /\ written = EmptyMap
    /\ i = 1
    /\ archive = {}
    /\ failed = {}
    /\ result = <<>>
    /\ raisedAt = ""
    /\ run = 1
    /\ prev = <<>>
    /\ workers = <<>>
    /\ PipeIdle

NextParse == Locate

SpecParse == InitParse /\ [][NextParse]_vars

----------------------------------------------------------------------------
(* Conversions run through the steps of GrobidLatexPipeline.get_steps *)

\* what __call__ works on stays as it is while the steps are followed
callVars == <<teixml, pdf, pc, workingDir, dirExists, files, pages, figures, pdfFiles,
              svgFiles, written, i, archive, failed, result, raisedAt, run, prev, workers>>

PdfContents == {"pdfA", "pdfB"}

\* get_steps has returned its list: each lambda holds the dict made for its context={}
InitPipe ==
    /\ teixml = <<>>
    /\ pdf = <<MediaBoxA>>
    /\ pc = "start"
    /\ workingDir = ""
    /\ dirExists = FALSE
    /\ files = {}
    /\ pages = FreshPages(<<>>)
    /\ figures = <<>>
    /\ pdfFiles = EmptyMap
    /\ svgFiles = EmptyMap
    /\ written = EmptyMap
    /\ i = 1
    /\ archive = {}
    /\ failed = {}
    /\ result = <<>>
    /\ raisedAt = ""
    /\ run = 1
    /\ prev = <<>>
    /\ workers = <<>>
    /\ PipeIdle

\* the dict a lambda sees as context: the one passed, else the one of its default
Seen(passed, given, default) == IF passed THEN given ELSE default

\* a conversion begins: the runner has the PDF and, when it passes one, the dict made
\* for this request
Begin ==
    /\ step = "idle"
    /\ conversions < MaxConversions
    /\ conversions' = conversions + 1
    /\ \E content \in PdfContents : pdf_content' = content
    /\ \E p \in BOOLEAN : passes' = p
    /\ context' = <<>>
    /\ handed' = <<>>
    /\ step' = "Convert to TEI"
    /\ UNCHANGED <<teiContext, latexContext, callVars>>

\* 'Convert to TEI': convert_to_tei sets context["pdfdata"], then calls Grobid
ConvertToTei ==
    /\ step = "Convert to TEI"
    /\ IF passes
       THEN context' = <<pdf_content>> /\ UNCHANGED teiContext
       ELSE teiContext' = <<pdf_content>> /\ UNCHANGED context
    /\ \E raises \in BOOLEAN : step' = IF raises THEN "ended" ELSE "TEI to LATEX"
    /\ UNCHANGED <<pdf_content, passes, latexContext, handed, conversions, callVars>>

\* 'TEI to LATEX': latex_transformer(content, context["pdfdata"]); KeyError without
\* the entry
TeiToLatex ==
    /\ step = "TEI to LATEX"
    /\ LET seen == Seen(passes, context, latexContext)
       IN  /\ handed' = seen
           /\ step' = "ended"
    /\ UNCHANGED <<pdf_content, passes, context, teiContext, latexContext, conversions,
                   callVars>>

\* the conversion is over: the request's dict goes with the request
End ==
    /\ step = "ended"
    /\ step' = "idle"
    /\ context' = <<>>
    /\ UNCHANGED <<pdf_content, passes, teiContext, latexContext, handed, conversions,
                   callVars>>

NextPipe ==
    \/ Begin
    \/ ConvertToTei
    \/ TeiToLatex
    \/ End

SpecPipe == InitPipe /\ [][NextPipe]_vars

----------------------------------------------------------------------------
(* Properties of one conversion *)

\* the parts the loop of croppdf has passed so far
Cropped == 1..(i - 1)

Labels == {figures[k][1] : k \in 1..Len(figures)}

PackagedKinds == {"tex", "svg", "xml"}

Min(a, b) == IF a <= b THEN a ELSE b
Max(a, b) == IF a >= b THEN a ELSE b

\* the region a PDF rectangle denotes: a rectangle is given by any two diagonally
\* opposite corners, the region lies between them
RegionLowerLeft(box)  == <<Min(box[1], box[3]), Min(box[2], box[4])>>
RegionUpperRight(box) == <<Max(box[1], box[3]), Max(box[2], box[4])>>

C2_StoredRectangleOrdered ==
    \A k \in Cropped :
        LET c == figures[k][2]
            w == written[figures[k][1]]
        IN  (c[4] > 0 /\ c[5] > 0 /\ c[1] \in 1..Len(pdf)) =>
                \A box \in {w.cropBox, w.trimBox} :
                    /\ getLowerLeft(box)[1] < getUpperRight(box)[1]
                    /\ getLowerLeft(box)[2] < getUpperRight(box)[2]

\* C3: if any external tool invocation of the conversion failed, the call returns
\* no bytes; a returned archive holds the typesetting source and the vector image
\* of every located figure.
C3_ToolFailureFailsCall ==
    pc = "returned" =>
        /\ failed = {}
        /\ Path(workingDir, "teidoc", "tex") \in result[1]
        /\ \A label \in Labels : Path(workingDir, label, "svg") \in result[1]

\* C4: a figure record whose page number is below 1 or above the page count makes
\* croppdf fail: every record the loop has passed names a page of the document, and
\* its file holds that page.
C4_PageOutOfRangeFails ==
    \A k \in Cropped :
        /\ figures[k][2][1] \in 1..Len(pdf)
        /\ written[figures[k][1]].page = figures[k][2][1] - 1

\* the records the figure nodes with both attributes and parseable coords give
RECURSIVE ParseableRecords(_)
ParseableRecords(nodes) ==
    IF nodes = <<>> THEN <<>>
    ELSE LET n == Head(nodes)
         IN  (IF HasAttr(n, "xml:id") /\ HasAttr(n, "coords") /\ parseCoords(n.coords[1]).ok
              THEN <<<<n.id[1], parseCoords(n.coords[1]).val>>>> ELSE <<>>)
                 \o ParseableRecords(Tail(nodes))

\* C5: a figure element whose coords cannot be parsed is skipped by extractFigures,
\* the records of the other figure elements are returned and the conversion does
\* not fail there.
C5_MalformedCoordsSkipped ==
    pc \notin {"start", "locate"} =>
        /\ raisedAt # "locate"
        /\ figures = ParseableRecords(FigureNodes(teixml))

\* C6: once the call has returned or raised, at whatever stage, the working
\* directory and every file in it no longer exist.
C6_WorkingDirRemoved ==
    pc \in {"returned", "raised"} => (~dirExists /\ files = {})

\* a call that raised while rendering, after cropped files had been written
C6_Witness ==
    /\ pc = "raised" /\ raisedAt = "render"
    /\ written # EmptyMap
    /\ ~dirExists /\ files = {}

\* C7: once tosvg has returned, the labels of extractFigures, the keys of the
\* mapping of croppdf and the keys of the mapping of tosvg are the same set, and
\* each mapping holds one entry per located figure; every cropped file is on disk.
C7_LabelSetsEqual ==
    pc \in {"zip", "read"} =>
        /\ DOMAIN pdfFiles = Labels
        /\ DOMAIN svgFiles = Labels
        /\ Cardinality(DOMAIN pdfFiles) = Len(figures)
        /\ Cardinality(DOMAIN svgFiles) = Len(figures)
        /\ \A label \in Labels :
              /\ pdfFiles[label] = Path(workingDir, label, "pdf")
              /\ svgFiles[label] = Path(workingDir, label, "svg")
              /\ <<label, "pdf">> \in files

\* two figures located, cropped and rendered
C7_Witness ==
    /\ pc = "zip"
    /\ Len(figures) = 2
    /\ Cardinality(DOMAIN svgFiles) = 2

\* C10: the member set of the archive toZip has built is exactly the set of files
\* of the working directory whose names end in .tex, .svg or .xml; no .pdf file and
\* not the archive itself.
C10_ArchiveMembers ==
    (pc = "read" /\ ArchiveFile \in files) =>
        archive = {Path(workingDir, f[1], f[2]) : f \in {g \in files : g[2] \in PackagedKinds}}

\* C9: two conversions of identical TEI bytes and identical PDF bytes that both
\* return (no tool invocation having failed in either) give archives with the same
\* set of member names and the same crop rectangles per label.
C9_SameInputsSameArchive ==
    (run = 2 /\ pc = "returned" /\ prev[1].returned /\ failed = {} /\ prev[1].failed = {}) =>
        /\ result[1] = prev[1].members
        /\ written = prev[1].crops

\* the box croppdf stores for a record on a page whose media box ends at height H
OwnBox(c, H) == <<c[2] + c[4], H - c[3], c[2], H - (c[3] + c[5])>>

\* the file of part k holds the boxes of its own record
HoldsOwnRegion(k) ==
    LET c == figures[k][2]
        w == written[figures[k][1]]
        H == getUpperRight_y(pdf[w.page + 1])
    IN  w.cropBox = OwnBox(c, H) /\ w.trimBox = OwnBox(c, H)

ResolvedPage(k) ==
    IF CropRaises(Len(pdf), figures[k][2]) THEN 0 - 1
    ELSE getPage(Len(pdf), figures[k][2][1] - 1)

----------------------------------------------------------------------------
(* Properties of extractFigures *)

\* positions of the figure elements of the document that carry both attributes
BothAttrs(doc) ==
    {k \in 1..Len(doc) :
        doc[k].tag = "figure" /\ Len(doc[k].id) = 1 /\ Len(doc[k].coords) = 1}

\* the k-th smallest element of a set of positions
RECURSIVE Nth(_, _)
Nth(set, k) ==
    LET least == CHOOSE m \in set : \A n \in set : m <= n
    IN  IF k = 1 THEN least ELSE Nth(set \ {least}, k - 1)

\* extractFigures has returned in this call
Located == pc \notin {"start", "locate"} /\ raisedAt # "locate"

\* C11: what extractFigures returns holds, in document order, exactly one record
\* (id, [page, x, y, w, h]) for each figure element carrying both xml:id and coords,
\* at whatever nesting depth, and no other record.
C11_OneRecordPerFigureInOrder ==
    Located =>
        /\ Len(figures) = Cardinality(BothAttrs(teixml))
        /\ \A k \in 1..Len(figures) :
              LET node == teixml[Nth(BothAttrs(teixml), k)]
              IN  /\ figures[k][1] = node.id[1]
                  /\ figures[k][2] = parseCoords(node.coords[1]).val

\* two records returned in document order, the second from a nested figure; a div
\* with both attributes would not be counted
C11_Witness ==
    /\ Located
    /\ Len(teixml) = 2 /\ teixml[2].depth = 2 /\ teixml[2].tag = "figure"
    /\ Len(figures) = 2
    /\ figures[1][1] = "fig_0" /\ figures[2][1] = "fig_1"

\* C12: a figure element without xml:id or without coords is left out of the result
\* of extractFigures and is no cause of an error: extractFigures raises only when
\* a figure with both attributes has coords that do not parse, and what it returns
\* holds every figure element that has both attributes.
C12_MissingAttributeSkipped ==
    /\ raisedAt = "locate" =>
          \E k \in BothAttrs(teixml) : ~parseCoords(teixml[k].coords[1]).ok
    /\ Located =>
          /\ {figures[k][1] : k \in 1..Len(figures)}
                = {teixml[k].id[1] : k \in BothAttrs(teixml)}
          /\ \A k \in 1..Len(teixml) :
                (teixml[k].tag = "figure" /\ Len(teixml[k].coords) = 0 /\ Len(teixml[k].id) = 1)
                    => \A j \in 1..Len(figures) : figures[j][1] # teixml[k].id[1]

\* a document of a figure without coords and a figure with both attributes: one
\* record, of the second
C12_Witness ==
    /\ Located
    /\ Len(teixml) = 2
    /\ teixml[1].tag = "figure" /\ Len(teixml[1].coords) = 0
    /\ Len(figures) = 1 /\ figures[1][1] = teixml[2].id[1]

----------------------------------------------------------------------------
(* Properties of the geometry *)

----------------------------------------------------------------------------
(* Properties of the order of the stages *)

\* the position of a stage in __call__
StageRank(p) ==
    CASE p = "start"     -> 0
      [] p = "locate"    -> 1
      [] p = "narrative" -> 2
      [] p = "crop"      -> 3
      [] p = "cropLoop"  -> 3
      [] p = "render"    -> 4
      [] p = "zip"       -> 5
      [] p = "read"      -> 6
      [] p = "returned"  -> 7
      [] OTHER           -> 8

\* C14: in every conversion the stages run in the order locate figures, convert
\* narrative, crop every located figure, render every cropped page, package;
\* packaging starts only after the render of every label has finished, and the
\* archive bytes are read before the working directory is removed.
C14_StageOrder ==
    [][/\ pc' # "raised" =>
             /\ StageRank(pc) <= StageRank(pc')
             /\ \/ StageRank(pc') <= StageRank(pc) + 1
                \* without figures neither loop has a pass to make
                \/ Labels = {} /\ pc = "crop" /\ pc' = "zip"
       /\ (StageRank(pc) = 3 /\ StageRank(pc') > 3 /\ pc' # "raised") =>
             DOMAIN pdfFiles' = Labels
       /\ (pc' = "zip" /\ pc # "zip") =>
             /\ DOMAIN svgFiles' = Labels
             /\ DOMAIN pdfFiles' = Labels
       /\ pc = "zip" => svgFiles' = svgFiles
       /\ pc' = "returned" =>
             /\ dirExists
             /\ ArchiveFile \in files
             /\ result' = <<archive>>
       /\ (dirExists /\ ~dirExists') => pc' \in {"returned", "raised"}
      ]_vars

\* a conversion of two figures has returned its archive
C14_Witness ==
    /\ pc = "returned"
    /\ Len(figures) = 2
    /\ DOMAIN svgFiles = Labels
    /\ result # <<>>
    /\ ~dirExists

----------------------------------------------------------------------------
(* Properties of parseCoords *)

\* the part of a string before its first ';', the whole string when it has none
FirstSegment(str) ==
    LET n == CHOOSE m \in 0..Len(str) :
                 /\ \A j \in 1..m : str[j] # ";"
                 /\ m = Len(str) \/ str[m + 1] = ";"
    IN  SubSeq(str, 1, n)

\* the positions around the fields of a string: its commas and its two ends
Cuts(str) == {0, Len(str) + 1} \cup {k \in 1..Len(str) : str[k] = ","}

\* the j-th field of a string, between two neighbouring cuts
Field(str, j) == SubSeq(str, Nth(Cuts(str), j) + 1, Nth(Cuts(str), j + 1) - 1)

\* C15: parseCoords uses only the part of the coordinate string before the first ';'
\* and ignores every later segment; it splits that part on ',' and returns the first
\* field as an integer page number and every other field as a floating-point number,
\* in input order.
C15_FirstSegmentFields ==
    (Len(teixml) = 1 /\ BothAttrs(teixml) = {1} /\ pc \in {"narrative", "raised"}) =>
        LET head  == FirstSegment(teixml[1].coords[1])
            count == Cardinality(Cuts(head)) - 1
            num   == [j \in 1..count |-> ParseFloat(Field(head, j))]
        IN  /\ raisedAt = "locate" <=> \E j \in 1..count : ~num[j].ok
            /\ raisedAt # "locate" =>
                  /\ Len(figures) = 1
                  /\ Len(figures[1][2]) = count
                  /\ figures[1][2][1] = IntOf(num[1].val)
                  /\ \A j \in 2..count : figures[1][2][j] = num[j].val

\* a string whose second segment is no number, parsed by its first segment
C15_Witness ==
    /\ pc = "narrative"
    /\ Len(teixml) = 1
    /\ teixml[1].coords = <<(<<"2", ",", "1", ";", "-">>)>>
    /\ figures = <<<<"fig_0", <<2, 10>>>>>>

----------------------------------------------------------------------------
(* Properties of the pipeline steps *)

\* C16: for any sequence of conversions run through the steps of get_steps, whether
\* or not the runner passes a context argument, the PDF bytes 'TEI to LATEX' hands to
\* the cropper are the bytes given to 'Convert to TEI' of the same conversion, never
\* bytes kept from another conversion, and no PDF content stays stored in step state
\* after a conversion ends.
C16_NoContentKeptInSteps ==
    /\ handed # <<>> => handed = <<pdf_content>>
    /\ step = "idle" => teiContext = <<>> /\ latexContext = <<>>

====
